---- MODULE Spec2Model ----
(***************************************************************************)
(* A model of dumpyc.py: the byte Reader, the header decoder, the          *)
(* recursive tagged object decoder and the bytecode decoder.               *)
(*                                                                         *)
(* Python objects are records, bytes objects are sequences of 0..255, and  *)
(* a 32-bit unsigned value is the record [hi, lo] of its two 16-bit halves *)
(* (the magic number 0xA0D00D32 does not fit a signed 32-bit integer).     *)
(***************************************************************************)
EXTENDS Integers, Sequences, FiniteSets, TLC

VARIABLES
    fp,         \* the content of the file behind Reader._fp (a sequence of bytes)
    pos,        \* the cursor of Reader._fp (what fp.seek(0, 1) returns)
    byteorder,  \* sys.byteorder of the host: "little" or "big"
    chunks,     \* history: every Chunk a Reader operation returned, in order
    err,        \* "none", or the exception that left the running call
    stack,      \* the Python call stack of the decoder, innermost frame last
    ret,        \* the value a parse call has just returned to its caller
    module,     \* the PycModule: version, header, body
    stdout,     \* the lines PyObject.parse printed
    code,       \* parse_bytecode: the buffer given as argument
    consumer,   \* parse_bytecode: how many bytes iter(code) has handed out
    container,  \* parse_bytecode: the list of instructions built so far
    bcpc,       \* parse_bytecode: "loop" while in the while loop, "returned" after
    HAVE_ARGUMENT   \* opcode.HAVE_ARGUMENT of the Python the program runs on

vars == <<fp, pos, byteorder, chunks, err, stack, ret, module, stdout,
          code, consumer, container, bcpc, HAVE_ARGUMENT>>

fileVars    == <<fp, pos, byteorder, chunks>>
readerVars  == <<fp, pos, byteorder, chunks, err>>
decoderVars == <<stack, ret, module, stdout>>
bcVars      == <<code, consumer, container, bcpc, HAVE_ARGUMENT>>

-----------------------------------------------------------------------------
(* Bounds of the model. *)

MaxReaderLen  == 5   \* longest stream given to the bare Reader
MaxReads      == 3   \* most Reader calls made on one stream by the bare Reader
MaxCount      == 3   \* largest n the bare Reader passes to read_bytes
MaxCodeLen    == 5   \* longest buffer given to parse_bytecode
MaxTupleLen   == 2   \* most items of a tuple of leaves in a decoded file

-----------------------------------------------------------------------------
(* Python values. *)

None == [cls |-> "NoneType"]            \* Python's None

PyInt(v) == [cls |-> "int", v |-> v]    \* an int where None may stand instead

NoReturn == [cls |-> "<no value returned>"]   \* ret when no call has just returned

RECURSIVE SeqsUpTo(_, _)
SeqsUpTo(S, n) ==
    IF n = 0 THEN {<<>>}
    ELSE LET shorter == SeqsUpTo(S, n - 1)
         IN  shorter \cup {Append(s, b) : s \in {t \in shorter : Len(t) = n - 1}, b \in S}

-----------------------------------------------------------------------------
(* class Chunk *)

Chunk(offset, value, bytes, size) ==
    [offset |-> offset, value |-> value, bytes |-> bytes, size |-> size]

-----------------------------------------------------------------------------
(* class Reader.  Each operation is a function of the file content, the    *)
(* cursor and the byte order; it yields the new cursor and either a Chunk  *)
(* or the exception raised.                                                *)

\* fp.read(n): at most n bytes from the cursor, fewer at the end of the file
file_read(f, p, n) ==
    IF n >= Len(f) - p THEN SubSeq(f, p + 1, Len(f)) ELSE SubSeq(f, p + 1, p + n)

\* struct.unpack('=L', b): the four bytes in the host's byte order
unpack_L(b, bo) ==
    IF bo = "little"
    THEN [hi |-> b[4] * 256 + b[3], lo |-> b[2] * 256 + b[1]]
    ELSE [hi |-> b[1] * 256 + b[2], lo |-> b[3] * 256 + b[4]]

Returned(chunk, p) == [chunk |-> chunk, pos |-> p, err |-> "none"]
Raised(e, p)       == [chunk |-> None, pos |-> p, err |-> e]

read_byte(f, p, bo) ==
    LET offset == p
        bytes_ == file_read(f, p, 1)
    IN  IF Len(bytes_) # 1
        THEN Raised("struct.error", p + Len(bytes_))
        ELSE Returned(Chunk(offset, bytes_[1], bytes_, 1), p + Len(bytes_))

read_long(f, p, bo) ==
    LET offset == p
        bytes_ == file_read(f, p, 4)
    IN  IF Len(bytes_) # 4
        THEN Raised("struct.error", p + Len(bytes_))
        ELSE Returned(Chunk(offset, unpack_L(bytes_, bo), bytes_, 4), p + Len(bytes_))

\* read_bytes taking the cursor for offset after fp.read instead of before
read_bytes_offset_after(f, p, bo, number_of_bytes) ==
    LET bytes_ == file_read(f, p, number_of_bytes)
        offset == p + Len(bytes_)
    IN  Returned(Chunk(offset, bytes_, bytes_, number_of_bytes), p + Len(bytes_))

read_bytes(f, p, bo, number_of_bytes) ==
    LET offset == p
        bytes_ == file_read(f, p, number_of_bytes)
    IN  Returned(Chunk(offset, bytes_, bytes_, number_of_bytes), p + Len(bytes_))

\* The effect of one Reader call on the file and on the history of chunks.
ReaderStep(r) ==
    /\ pos' = r.pos
    /\ chunks' = IF r.err = "none" THEN Append(chunks, r.chunk) ELSE chunks
    /\ UNCHANGED <<fp, byteorder>>

Apply(r) ==
    /\ ReaderStep(r)
    /\ err' = r.err

-----------------------------------------------------------------------------
(* The Reader on its own: any sequence of calls on any stream. *)

ReaderBytes == {1, 200}

ReaderStreams == SeqsUpTo(ReaderBytes, MaxReaderLen)

IdleDecoder ==
    /\ stack = <<>>
    /\ ret = NoReturn
    /\ module = [version |-> None, header |-> None, body |-> None]
    /\ stdout = <<>>

IdleBytecode ==
    /\ code = <<>>
    /\ consumer = 0
    /\ container = <<>>
    /\ bcpc = "idle"
    /\ HAVE_ARGUMENT = 90

ReaderInit ==
    /\ fp \in ReaderStreams
    /\ pos = 0
    /\ byteorder \in {"little", "big"}
    /\ chunks = <<>>
    /\ err = "none"
    /\ IdleDecoder
    /\ IdleBytecode

CallReadByte ==
    /\ err = "none"
    /\ Len(chunks) < MaxReads
    /\ Apply(read_byte(fp, pos, byteorder))
    /\ UNCHANGED <<decoderVars, bcVars>>

CallReadLong ==
    /\ err = "none"
    /\ Len(chunks) < MaxReads
    /\ Apply(read_long(fp, pos, byteorder))
    /\ UNCHANGED <<decoderVars, bcVars>>

CallReadBytes ==
    /\ err = "none"
    /\ Len(chunks) < MaxReads
    /\ \E n \in 0..MaxCount : Apply(read_bytes(fp, pos, byteorder, n))
    /\ UNCHANGED <<decoderVars, bcVars>>

ReaderNext ==
    \/ CallReadByte
    \/ CallReadLong
    \/ CallReadBytes

SpecReader == ReaderInit /\ [][ReaderNext]_vars

-----------------------------------------------------------------------------
(* class MAGIC_NUMBER.  A member is its name, split at '_' as the version  *)
(* property splits it, and its value; 0x0A0D = 2573, 0xA0D0 = 41168.       *)

MAGIC_NUMBER == <<
    [name |-> <<"MAGIC", "2", "7">>,      value |-> [hi |-> 2573,  lo |-> 62211]],
    [name |-> <<"MAGIC", "3", "0">>,      value |-> [hi |-> 2573,  lo |-> 3131]],
    [name |-> <<"MAGIC", "3", "1">>,      value |-> [hi |-> 2573,  lo |-> 3151]],
    [name |-> <<"MAGIC", "3", "2">>,      value |-> [hi |-> 2573,  lo |-> 3180]],
    [name |-> <<"MAGIC", "3", "3">>,      value |-> [hi |-> 2573,  lo |-> 3230]],
    [name |-> <<"MAGIC", "3", "4">>,      value |-> [hi |-> 2573,  lo |-> 3310]],
    [name |-> <<"MAGIC", "3", "5">>,      value |-> [hi |-> 2573,  lo |-> 3350]],
    [name |-> <<"MAGIC", "3", "5", "2">>, value |-> [hi |-> 2573,  lo |-> 3351]],
    [name |-> <<"MAGIC", "3", "6">>,      value |-> [hi |-> 41168, lo |-> 3378]] >>

\* int(s) for the one-digit strings the member names hold
int(s) ==
    CASE s = "0" -> 0 [] s = "1" -> 1 [] s = "2" -> 2 [] s = "3" -> 3
      [] s = "4" -> 4 [] s = "5" -> 5 [] s = "6" -> 6 [] s = "7" -> 7
      [] s = "8" -> 8 [] s = "9" -> 9

\* MAGIC_NUMBER.version
version(t) ==
    LET major == t.name[2]
        minor == t.name[3]
        a     == SubSeq(t.name, 4, Len(t.name))
        patch_level == IF a # <<>> THEN int(a[1]) ELSE 0
    IN  <<int(major), int(minor), patch_level>>

\* a >= b looking at the major version alone
tuple_ge_major(a, b) == a[1] >= b[1]

\* a >= b on two tuples of integers, as Python orders tuples
RECURSIVE tuple_ge(_, _)
tuple_ge(a, b) ==
    IF b = <<>> THEN TRUE
    ELSE IF a = <<>> THEN FALSE
    ELSE IF a[1] # b[1] THEN a[1] > b[1]
    ELSE tuple_ge(Tail(a), Tail(b))

\* PycModule.set_version: the version of the first member whose value is
\* magic_number, or the exception raised by the for loop's else clause
RECURSIVE find_version(_, _)
find_version(magic_number, i) ==
    IF i > Len(MAGIC_NUMBER)
    THEN [version |-> None, err |-> "Exception: undefined version of Python"]
    ELSE IF MAGIC_NUMBER[i].value = magic_number
    THEN [version |-> version(MAGIC_NUMBER[i]), err |-> "none"]
    ELSE find_version(magic_number, i + 1)

\* set_version falling back to the newest known version instead of raising
set_version_fallback(magic_number) ==
    LET found == find_version(magic_number, 1)
    IN  IF found.err = "none" THEN found
        ELSE [version |-> version(MAGIC_NUMBER[Len(MAGIC_NUMBER)]), err |-> "none"]

set_version(magic_number) == find_version(magic_number, 1)

-----------------------------------------------------------------------------
(* The call stack. *)

Top  == stack[Len(stack)]
Rest == SubSeq(stack, 1, Len(stack) - 1)

Running(fn) ==
    /\ err = "none"
    /\ stack # <<>>
    /\ Top.fn = fn

\* the frame is about to make its next call or read
AtStep(fn) == Running(fn) /\ ret = NoReturn

\* the call the frame made has just returned
AtReturn(fn) == Running(fn) /\ ret # NoReturn

\* setattr(instance, item, value)
setattr(instance, item, value) ==
    [x \in DOMAIN instance \cup {item} |-> IF x = item THEN value ELSE instance[x]]

\* a frame of PyObject.parse that has not yet read its tag byte
ObjectFrame == [fn |-> "PyObject.parse", pc |-> "read_byte", current_byte |-> None]

\* the frame of main(), once it has called pyc.parse()
MainFrame == [fn |-> "main", pc |-> "pyc.parse"]

\* an exception nothing catches leaves every frame
Uncaught(e) ==
    /\ err' = e
    /\ stack' = <<>>
    /\ ret' = NoReturn

\* return value from the running frame to its caller
Return(value) ==
    /\ err' = "none"
    /\ stack' = Rest
    /\ ret' = value

-----------------------------------------------------------------------------
(* PycModule.parse and PycHeader.parse *)

PycHeader(m) ==
    [cls |-> "PycHeader", magic_number |-> None, time_stamp |-> None, size |-> None]

\* main calls pyc.parse(), which opens the file and calls PycHeader.parse
ModuleParse ==
    /\ AtStep("main")
    /\ Top.pc = "pyc.parse"
    /\ stack' = Rest \o << [fn |-> "main", pc |-> "pyc.to_xml"],
                           [fn |-> "PycModule.parse", pc |-> "header"],
                           [fn |-> "PycHeader.parse", pc |-> "magic_number",
                            instance |-> PycHeader(module)] >>
    /\ UNCHANGED <<readerVars, ret, module, stdout, bcVars>>

\* instance.magic_number = reader.read_long(); module.set_version(...)
HeaderMagicNumber ==
    /\ AtStep("PycHeader.parse")
    /\ Top.pc = "magic_number"
    /\ LET r == read_long(fp, pos, byteorder)
           v == set_version(r.chunk.value)
       IN  /\ ReaderStep(r)
           /\ IF r.err # "none"
              THEN Uncaught(r.err) /\ UNCHANGED module
              ELSE IF v.err # "none"
              THEN Uncaught(v.err) /\ UNCHANGED module
              ELSE /\ module' = [module EXCEPT !.version = v.version]
                   /\ stack' = Rest \o << [Top EXCEPT
                          !.pc = "time_stamp",
                          !.instance = setattr(@, "magic_number", r.chunk)] >>
                   /\ UNCHANGED <<err, ret>>
    /\ UNCHANGED <<stdout, bcVars>>

\* instance.time_stamp = reader.read_long(), then the test of the version
HeaderTimeStamp ==
    /\ AtStep("PycHeader.parse")
    /\ Top.pc = "time_stamp"
    /\ LET r == read_long(fp, pos, byteorder)
           instance == setattr(Top.instance, "time_stamp", r.chunk)
       IN  /\ ReaderStep(r)
           /\ IF r.err # "none"
              THEN Uncaught(r.err)
              ELSE IF tuple_ge(module.version, <<3, 2>>)
              THEN /\ stack' = Rest \o << [Top EXCEPT !.pc = "size",
                                                      !.instance = instance] >>
                   /\ UNCHANGED <<err, ret>>
              ELSE Return(instance)
    /\ UNCHANGED <<module, stdout, bcVars>>

\* instance.size = reader.read_long()
HeaderSize ==
    /\ AtStep("PycHeader.parse")
    /\ Top.pc = "size"
    /\ LET r == read_long(fp, pos, byteorder)
       IN  /\ ReaderStep(r)
           /\ IF r.err # "none"
              THEN Uncaught(r.err)
              ELSE Return(setattr(Top.instance, "size", r.chunk))
    /\ UNCHANGED <<module, stdout, bcVars>>

\* self.header = <what PycHeader.parse returned>, then the call of PyObject.parse
ModuleHeader ==
    /\ AtReturn("PycModule.parse")
    /\ Top.pc = "header"
    /\ module' = [module EXCEPT !.header = ret]
    /\ stack' = Rest \o << [Top EXCEPT !.pc = "body"], ObjectFrame >>
    /\ ret' = NoReturn
    /\ UNCHANGED <<readerVars, stdout, bcVars>>

\* self.body = <what PyObject.parse returned>; parse returns to main
ModuleBody ==
    /\ AtReturn("PycModule.parse")
    /\ Top.pc = "body"
    /\ module' = [module EXCEPT !.body = ret]
    /\ stack' = Rest
    /\ ret' = NoReturn
    /\ UNCHANGED <<readerVars, stdout, bcVars>>

-----------------------------------------------------------------------------
(* PyObject.parse and the parsers it dispatches to *)

PyNone == [cls |-> "PyObject", type |-> "TYPE_NONE"]

PyObject(cls) == [cls |-> cls]

\* the tag byte used for dispatch as it is, bit 0x80 included
current_type_unmasked(value) == value

\* current_byte.value & 0x7F
current_type(value) == value % 128

\* the value of a read_long chunk as the count given to fp.read
long_to_count(v) == v.hi * 65536 + v.lo

LongFields == <<"arg_count", "kw_only_arg_count", "num_locals", "stack_size", "flags">>

\* the nested objects with consts and names in each other's place
ObjectFields_swapped == <<"code", "names", "consts", "varnames",
                          "freevars", "cellvars", "filename", "name">>

ObjectFields == <<"code", "consts", "names", "varnames",
                  "freevars", "cellvars", "filename", "name">>

\* the statements of PyCodeObject.parse in order: which attribute each one
\* sets and from which call
CodeSteps ==
    [i \in 1..Len(LongFields) |-> [item |-> LongFields[i], from |-> "read_long"]]
    \o [i \in 1..Len(ObjectFields) |-> [item |-> ObjectFields[i], from |-> "PyObject.parse"]]
    \o << [item |-> "firstline", from |-> "read_long"],
          [item |-> "table", from |-> "PyObject.parse"] >>

\* MAPPING.get(current_type, raise_invalid)
MAPPING(type) ==
    CASE type = 99  -> "PyCodeObject.parse"
      [] type = 115 -> "PyString.parse"
      [] type = 41  -> "PySmallTuple.parse"
      [] type = 90  -> "PyShortAsciiInterned.parse"
      [] type = 78  -> "lambda: PyNone"
      [] type = 114 -> "PyReference.parse"
      [] type = 122 -> "PyShortAscii.parse"
      [] OTHER      -> "raise_invalid"

\* the frame of a parser as it is entered
ParserFrame(fn) ==
    CASE fn = "PyCodeObject.parse" ->
            [fn |-> fn, pc |-> 1, instance |-> PyObject("PyCodeObject")]
      [] fn = "PyString.parse" ->
            [fn |-> fn, pc |-> "size", instance |-> PyObject("PyString")]
      [] fn = "PySmallTuple.parse" ->
            [fn |-> fn, pc |-> "size", instance |-> PyObject("PySmallTuple"),
             items |-> <<>>]
      [] fn = "PyShortAsciiInterned.parse" ->
            [fn |-> fn, pc |-> "size", instance |-> PyObject("PyShortAsciiInterned")]
      [] fn = "PyReference.parse" ->
            [fn |-> fn, pc |-> "index", instance |-> PyObject("PyReference")]
      [] fn = "PyShortAscii.parse" ->
            [fn |-> fn, pc |-> "size", instance |-> PyObject("PyShortAscii")]

\* PyObject.parse up to the call of the parser MAPPING gives.  The lambda
\* returns PyNone at once; raise_invalid raises InvalidType, which the except
\* clause catches and prints, after which parse falls off its end: None.
ObjectParse ==
    /\ AtStep("PyObject.parse")
    /\ Top.pc = "read_byte"
    /\ LET current_byte == read_byte(fp, pos, byteorder)
           type   == current_type(current_byte.chunk.value)
           parser == MAPPING(type)
       IN  /\ ReaderStep(current_byte)
           /\ IF current_byte.err # "none"
              THEN Uncaught(current_byte.err) /\ UNCHANGED stdout
              ELSE IF parser = "lambda: PyNone"
              THEN Return(PyNone) /\ UNCHANGED stdout
              ELSE IF parser = "raise_invalid"
              THEN /\ stdout' = Append(stdout, [current_type |-> type,
                                                current_byte |-> current_byte.chunk])
                   /\ Return(None)
              ELSE /\ stack' = Rest \o << [Top EXCEPT !.pc = "call",
                                              !.current_byte = current_byte.chunk],
                                          ParserFrame(parser) >>
                   /\ UNCHANGED <<err, ret, stdout>>
    /\ UNCHANGED <<module, bcVars>>

\* return MAPPING.get(...)(reader, module): the parser's value is parse's value
ObjectReturn ==
    /\ AtReturn("PyObject.parse")
    /\ Top.pc = "call"
    /\ stack' = Rest
    /\ UNCHANGED <<readerVars, ret, module, stdout, bcVars>>

\* PyString.parse: instance.size = reader.read_long()
StringSize ==
    /\ AtStep("PyString.parse")
    /\ Top.pc = "size"
    /\ LET r == read_long(fp, pos, byteorder)
       IN  /\ ReaderStep(r)
           /\ IF r.err # "none"
              THEN Uncaught(r.err)
              ELSE /\ stack' = Rest \o << [Top EXCEPT !.pc = "value",
                              !.instance = setattr(@, "size", r.chunk)] >>
                   /\ UNCHANGED <<err, ret>>
    /\ UNCHANGED <<module, stdout, bcVars>>

\* PyString.parse: instance.value = reader.read_bytes(instance.size.value)
StringValue ==
    /\ AtStep("PyString.parse")
    /\ Top.pc = "value"
    /\ LET r == read_bytes(fp, pos, byteorder, long_to_count(Top.instance.size.value))
       IN  /\ ReaderStep(r)
           /\ Return(setattr(Top.instance, "value", r.chunk))
    /\ UNCHANGED <<module, stdout, bcVars>>

\* PyShortAscii.parse and PyShortAsciiInterned.parse (the same statements):
\* instance.size = reader.read_byte()
ShortAsciiSize(fn) ==
    /\ AtStep(fn)
    /\ Top.pc = "size"
    /\ LET r == read_byte(fp, pos, byteorder)
       IN  /\ ReaderStep(r)
           /\ IF r.err # "none"
              THEN Uncaught(r.err)
              ELSE /\ stack' = Rest \o << [Top EXCEPT !.pc = "value",
                              !.instance = setattr(@, "size", r.chunk)] >>
                   /\ UNCHANGED <<err, ret>>
    /\ UNCHANGED <<module, stdout, bcVars>>

\* instance.value = reader.read_bytes(instance.size.value)
ShortAsciiValue(fn) ==
    /\ AtStep(fn)
    /\ Top.pc = "value"
    /\ LET r == read_bytes(fp, pos, byteorder, Top.instance.size.value)
       IN  /\ ReaderStep(r)
           /\ Return(setattr(Top.instance, "value", r.chunk))
    /\ UNCHANGED <<module, stdout, bcVars>>

\* PyReference.parse: instance.index = reader.read_long()
ReferenceIndex ==
    /\ AtStep("PyReference.parse")
    /\ Top.pc = "index"
    /\ LET r == read_long(fp, pos, byteorder)
       IN  /\ ReaderStep(r)
           /\ IF r.err # "none"
              THEN Uncaught(r.err)
              ELSE Return(setattr(Top.instance, "index", r.chunk))
    /\ UNCHANGED <<module, stdout, bcVars>>

\* what the list comprehension of PySmallTuple.parse does once it holds items:
\* another PyObject.parse while range(size.value) lasts, then return instance
TupleLoop(instance, items) ==
    IF Len(items) < instance.size.value
    THEN /\ stack' = Rest \o << [Top EXCEPT !.pc = "items", !.instance = instance,
                                            !.items = items],
                                ObjectFrame >>
         /\ err' = "none"
         /\ ret' = NoReturn
    ELSE Return(setattr(instance, "items", items))

\* PySmallTuple.parse: instance.size = reader.read_byte(), then the comprehension
SmallTupleSize ==
    /\ AtStep("PySmallTuple.parse")
    /\ Top.pc = "size"
    /\ LET r == read_byte(fp, pos, byteorder)
       IN  /\ ReaderStep(r)
           /\ IF r.err # "none"
              THEN Uncaught(r.err)
              ELSE TupleLoop(setattr(Top.instance, "size", r.chunk), <<>>)
    /\ UNCHANGED <<module, stdout, bcVars>>

\* PySmallTuple.parse: one PyObject.parse of the comprehension has returned
SmallTupleItem ==
    /\ AtReturn("PySmallTuple.parse")
    /\ Top.pc = "items"
    /\ TupleLoop(Top.instance, Append(Top.items, ret))
    /\ UNCHANGED <<fileVars, module, stdout, bcVars>>

\* what PyCodeObject.parse does after its statement number pc: the next
\* statement, which calls PyObject.parse at once when it is one of those, or
\* return instance after the last
CodeAdvance(instance, pc) ==
    IF pc = Len(CodeSteps)
    THEN Return(instance)
    ELSE /\ stack' = Rest \o << [Top EXCEPT !.pc = pc + 1, !.instance = instance] >>
                          \o (IF CodeSteps[pc + 1].from = "PyObject.parse"
                              THEN << ObjectFrame >> ELSE << >>)
         /\ err' = "none"
         /\ ret' = NoReturn

\* PyCodeObject.parse: setattr(instance, item, reader.read_long()), and
\* instance.firstline = reader.read_long()
CodeReadLong ==
    /\ AtStep("PyCodeObject.parse")
    /\ CodeSteps[Top.pc].from = "read_long"
    /\ LET r == read_long(fp, pos, byteorder)
       IN  /\ ReaderStep(r)
           /\ IF r.err # "none"
              THEN Uncaught(r.err)
              ELSE CodeAdvance(setattr(Top.instance, CodeSteps[Top.pc].item, r.chunk),
                               Top.pc)
    /\ UNCHANGED <<module, stdout, bcVars>>

\* PyCodeObject.parse: setattr(instance, item, <what PyObject.parse returned>),
\* and instance.table = <what PyObject.parse returned>
CodeObjectField ==
    /\ AtReturn("PyCodeObject.parse")
    /\ CodeSteps[Top.pc].from = "PyObject.parse"
    /\ CodeAdvance(setattr(Top.instance, CodeSteps[Top.pc].item, ret), Top.pc)
    /\ UNCHANGED <<fileVars, module, stdout, bcVars>>

-----------------------------------------------------------------------------
(* The files given to the decoder: headers of every version, followed by   *)
(* well-formed objects of every kind, objects with unknown tags, and every *)
(* truncation of those.  enc is the byte order the file was written in.    *)

\* the four bytes of a 32-bit value in byte order enc
pack_L(v, enc) ==
    LET be == << v.hi \div 256, v.hi % 256, v.lo \div 256, v.lo % 256 >>
    IN  IF enc = "big" THEN be ELSE << be[4], be[3], be[2], be[1] >>

W(n, enc) == pack_L([hi |-> 0, lo |-> n], enc)

RECURSIVE Concat(_)
Concat(ss) == IF ss = <<>> THEN <<>> ELSE Head(ss) \o Concat(Tail(ss))

Prefixes(S) == UNION { {SubSeq(s, 1, k) : k \in 0..Len(s)} : s \in S }

Short(tag, payload)    == <<tag, Len(payload)>> \o payload
Str(tag, payload, enc) == <<tag>> \o W(Len(payload), enc) \o payload
Ref(tag, n, enc)       == <<tag>> \o W(n, enc)
Tup(tag, items)        == <<tag, Len(items)>> \o Concat(items)
Code(tag, longs, objects, firstline, table, enc) ==
    <<tag>> \o Concat([i \in 1..Len(longs) |-> W(longs[i], enc)])
            \o Concat(objects) \o W(firstline, enc) \o table

Leaves(enc) ==
    { <<78>>, <<206>>,                       \* 'N', 'N' | 0x80
      <<1>>, <<129>>,                        \* no tag, no tag | 0x80
      Short(122, <<65, 66>>),                \* 'z'
      Short(218, <<65>>),                    \* 'Z' | 0x80
      Str(115, <<100, 1>>, enc),             \* 's'
      Ref(114, 3, enc) }                     \* 'r'

TuplesOfLeaves(enc) ==
    { Tup(41, items) : items \in SeqsUpTo(Leaves(enc), MaxTupleLen) }

NestedTuples(enc) ==
    LET some == { <<78>>, <<1>>, Short(122, <<65, 66>>) }
    IN  { Tup(169, << Tup(41, <<a>>), b >>) : a \in some, b \in some }

\* the nested objects of a code object as a compiler writes them: code,
\* consts, names, varnames, freevars, cellvars, filename, name and the table
UsualObjects(enc) ==
    << Str(115, <<100, 0, 0, 83>>, enc), Tup(41, << <<78>> >>), Tup(41, <<>>),
       Tup(41, <<>>), Tup(41, <<>>), Tup(41, <<>>),
       Short(122, <<65, 66>>), Short(218, <<65>>), Str(115, <<2, 1>>, enc) >>

CodeOf(tag, objects, enc) ==
    Code(tag, <<0, 0, 0, 1, 64>>, SubSeq(objects, 1, 8), 1, objects[9], enc)

CodeObjects(enc) ==
    LET usual == UsualObjects(enc)
        other == { <<78>>, <<1>>, Ref(242, 3, enc) }
    IN  { CodeOf(227, usual, enc) }
        \cup { CodeOf(99, [usual EXCEPT ![i] = x], enc) : i \in 1..9, x \in other }
        \cup { CodeOf(99, [usual EXCEPT ![2] = Tup(41, << CodeOf(227, usual, enc) >>)], enc) }

\* the tags of the leaves with the other value of bit 0x80
OtherLeaves(enc) ==
    { Short(90, <<65>>), Short(250, <<65, 66>>), Str(243, <<100, 1>>, enc) }

Bodies(enc) ==
    Leaves(enc) \cup OtherLeaves(enc) \cup TuplesOfLeaves(enc) \cup NestedTuples(enc) \cup CodeObjects(enc)

KnownMagic == { MAGIC_NUMBER[i].value : i \in 1..Len(MAGIC_NUMBER) }

\* two values next to known ones, and zero
UnknownMagic == { [hi |-> 2573, lo |-> 3352], [hi |-> 2572, lo |-> 62211],
                  [hi |-> 0, lo |-> 0] }

TimeStamp == <<1, 2, 3, 4>>

\* a header with and without a size field after every magic number
Headers(enc) ==
    { pack_L(m, enc) \o TimeStamp \o sz :
        m \in KnownMagic \cup UnknownMagic, sz \in { <<>>, W(5, enc) } }

\* the header Python 2.7 and the header Python 3.5 write
UsualHeaders(enc) ==
    { pack_L(MAGIC_NUMBER[1].value, enc) \o TimeStamp,
      pack_L(MAGIC_NUMBER[7].value, enc) \o TimeStamp \o W(5, enc) }

Files(enc) ==
    Prefixes({ h \o b : h \in Headers(enc), b \in Leaves(enc) }
             \cup { h \o b : h \in UsualHeaders(enc), b \in Bodies(enc) })

-----------------------------------------------------------------------------
(* The decoder: main() up to the end of pyc.parse(). *)

Init ==
    /\ byteorder \in {"little", "big"}
    /\ fp \in Files("little") \cup Files("big")
    /\ pos = 0
    /\ chunks = <<>>
    /\ err = "none"
    /\ stack = << MainFrame >>
    /\ ret = NoReturn
    /\ module = [version |-> None, header |-> None, body |-> None]
    /\ stdout = <<>>
    /\ IdleBytecode

Next ==
    \/ ModuleParse
    \/ HeaderMagicNumber
    \/ HeaderTimeStamp
    \/ HeaderSize
    \/ ModuleHeader
    \/ ModuleBody
    \/ ObjectParse
    \/ ObjectReturn
    \/ StringSize
    \/ StringValue
    \/ ShortAsciiSize("PyShortAscii.parse")
    \/ ShortAsciiValue("PyShortAscii.parse")
    \/ ShortAsciiSize("PyShortAsciiInterned.parse")
    \/ ShortAsciiValue("PyShortAsciiInterned.parse")
    \/ ReferenceIndex
    \/ SmallTupleSize
    \/ SmallTupleItem
    \/ CodeReadLong
    \/ CodeObjectField

Spec == Init /\ [][Next]_vars

-----------------------------------------------------------------------------
(* PyCodeObject.parse_bytecode.  The opcode module belongs to the Python   *)
(* the program runs on: HAVE_ARGUMENT is 90 in the CPython versions of the *)
(* magic number table, and 2 stands for an instruction set whose opcode 1  *)
(* takes no argument and whose opcode 2 takes one.                         *)

\* opcode.opname[keyword]
opname(keyword) == <<"opcode.opname", keyword>>

\* next(cons, None) on the iterator that has handed out n bytes of buffer:
\* the value and the iterator afterwards
next(buffer, n) ==
    IF n < Len(buffer)
    THEN [value |-> PyInt(buffer[n + 1]), n |-> n + 1]
    ELSE [value |-> None, n |-> n]

\* the test with > in the place of >=
has_argument_strict(keyword, threshold) == keyword > threshold

\* keyword >= opcode.HAVE_ARGUMENT
has_argument(keyword, threshold) == keyword >= threshold

\* consume(cons): keyword, operand, arguments, and the iterator afterwards
consume(buffer, n, threshold) ==
    LET keyword == next(buffer, n)
    IN  IF keyword.value # None /\ has_argument(keyword.value.v, threshold)
        THEN LET operand   == next(buffer, keyword.n)
                 arguments == next(buffer, operand.n)
             IN  [keyword |-> keyword.value, operand |-> operand.value,
                  arguments |-> arguments.value, n |-> arguments.n]
        ELSE [keyword |-> keyword.value, operand |-> None,
              arguments |-> None, n |-> keyword.n]

BytecodeBytes == {0, 1, 2, 5, 100}

BytecodeInit ==
    /\ code \in SeqsUpTo(BytecodeBytes, MaxCodeLen)
    /\ HAVE_ARGUMENT \in {2, 90}
    /\ consumer = 0
    /\ container = <<>>
    /\ bcpc = "loop"
    /\ fp = <<>>
    /\ pos = 0
    /\ byteorder = "little"
    /\ chunks = <<>>
    /\ err = "none"
    /\ IdleDecoder

\* one turn of the while loop that appends an instruction
BytecodeAppend ==
    /\ bcpc = "loop"
    /\ LET c == consume(code, consumer, HAVE_ARGUMENT)
       IN  /\ c.keyword # None
           /\ consumer' = c.n
           /\ container' = Append(container,
                  <<opname(c.keyword.v), c.keyword, c.operand, c.arguments>>)
    /\ UNCHANGED <<code, bcpc, HAVE_ARGUMENT, readerVars, decoderVars>>

\* the turn of the while loop that finds the iterator exhausted: break, return
BytecodeReturn ==
    /\ bcpc = "loop"
    /\ LET c == consume(code, consumer, HAVE_ARGUMENT)
       IN  /\ c.keyword = None
           /\ consumer' = c.n
    /\ bcpc' = "returned"
    /\ UNCHANGED <<code, container, HAVE_ARGUMENT, readerVars, decoderVars>>

BytecodeNext ==
    \/ BytecodeAppend
    \/ BytecodeReturn

SpecBytecode == BytecodeInit /\ [][BytecodeNext]_vars

-----------------------------------------------------------------------------
(* What the claims are stated with. *)

Last(seq) == seq[Len(seq)]

\* every chunk before the k-th holds as many bytes as were asked for
AllAvailableBefore(k) == \A j \in 1..(k - 1) : Len(chunks[j].bytes) = chunks[j].size

RECURSIVE SizesBefore(_)
SizesBefore(k) == IF k <= 1 THEN 0 ELSE SizesBefore(k - 1) + chunks[k - 1].size

KnownTags == {99, 115, 41, 90, 78, 114, 122}

\* PyObject.parse is about to read a tag byte that the file holds
AtTag == AtStep("PyObject.parse") /\ Top.pc = "read_byte" /\ pos < Len(fp)

\* the class of the object a tag byte stands for; tags with and without bit
\* 0x80 are listed one by one
ClsOfTag(b) ==
    CASE b \in {99, 227}  -> "PyCodeObject"
      [] b \in {115, 243} -> "PyString"
      [] b \in {41, 169}  -> "PySmallTuple"
      [] b \in {90, 218}  -> "PyShortAsciiInterned"
      [] b \in {78, 206}  -> "PyObject"
      [] b \in {114, 242} -> "PyReference"
      [] b \in {122, 250} -> "PyShortAscii"
      [] OTHER            -> "NoneType"

RECURSIVE SumSeq(_)
SumSeq(ns) == IF ns = <<>> THEN 0 ELSE Head(ns) + SumSeq(Tail(ns))

\* the number of bytes of the file a decoded object was read from, its tag
\* byte included
RECURSIVE Extent(_)
Extent(o) ==
    CASE o.cls \in {"NoneType", "PyObject"} -> 1
      [] o.cls \in {"PyShortAscii", "PyShortAsciiInterned"} -> 2 + Len(o.value.bytes)
      [] o.cls = "PyString" -> 5 + Len(o.value.bytes)
      [] o.cls = "PyReference" -> 5
      [] o.cls = "PySmallTuple" ->
            2 + SumSeq([i \in 1..Len(o.items) |-> Extent(o.items[i])])
      [] o.cls = "PyCodeObject" ->
            1 + 20 + Extent(o.code) + Extent(o.consts) + Extent(o.names)
              + Extent(o.varnames) + Extent(o.freevars) + Extent(o.cellvars)
              + Extent(o.filename) + Extent(o.name) + 4 + Extent(o.table)

\* the offset of the first chunk an object holds, for the objects that hold one
HasOffset(o) == o.cls \notin {"NoneType", "PyObject"}
FirstOffset(o) ==
    CASE o.cls = "PyReference"  -> o.index.offset
      [] o.cls = "PyCodeObject" -> o.arg_count.offset
      [] OTHER                  -> o.size.offset

\* object o was read from the file at offset start
ReadAt(o, start) ==
    /\ start < Len(fp)
    /\ ClsOfTag(fp[start + 1]) = o.cls
    /\ HasOffset(o) => FirstOffset(o) = start + 1

\* where the i-th of a sequence of objects starts when the first starts at start
StartOf(objects, i, start) ==
    start + SumSeq([k \in 1..(i - 1) |-> Extent(objects[k])])

TupleInOrder(t) ==
    /\ Len(t.items) = t.size.value
    /\ \A i \in 1..Len(t.items) :
          ReadAt(t.items[i], StartOf(t.items, i, t.size.offset + 1))

CodeInOrder(c) ==
    LET base    == c.arg_count.offset
        objects == << c.code, c.consts, c.names, c.varnames,
                       c.freevars, c.cellvars, c.filename, c.name >>
    IN  /\ DOMAIN c = {"cls", "arg_count", "kw_only_arg_count", "num_locals",
                       "stack_size", "flags", "code", "consts", "names", "varnames",
                       "freevars", "cellvars", "filename", "name", "firstline", "table"}
        /\ c.kw_only_arg_count.offset = base + 4
        /\ c.num_locals.offset = base + 8
        /\ c.stack_size.offset = base + 12
        /\ c.flags.offset = base + 16
        /\ \A f \in {"arg_count", "kw_only_arg_count", "num_locals", "stack_size",
                     "flags", "firstline"} :
              c[f].size = 4 /\ c[f].bytes = SubSeq(fp, c[f].offset + 1, c[f].offset + 4)
        /\ \A i \in 1..8 : ReadAt(objects[i], StartOf(objects, i, base + 20))
        /\ c.firstline.offset = StartOf(objects, 9, base + 20)
        /\ ReadAt(c.table, c.firstline.offset + 4)

\* the bytes of the instructions of parse_bytecode's result, in order
RECURSIVE InstructionBytes(_)
InstructionBytes(instructions) ==
    IF instructions = <<>> THEN <<>>
    ELSE LET i == Head(instructions)
         IN  <<i[2].v>>
             \o (IF i[3] # None THEN <<i[3].v>> ELSE <<>>)
             \o (IF i[4] # None THEN <<i[4].v>> ELSE <<>>)
             \o InstructionBytes(Tail(instructions))

\* buffer ends where an instruction ends, reading instructions from byte n + 1
RECURSIVE EndsOnBoundary(_, _, _)
EndsOnBoundary(buffer, n, threshold) ==
    IF n >= Len(buffer) THEN n = Len(buffer)
    ELSE EndsOnBoundary(buffer, n + (IF buffer[n + 1] >= threshold THEN 3 ELSE 1),
                        threshold)

-----------------------------------------------------------------------------
(* The claims. *)

\* C1: when PyObject.parse reads a tag byte whose low 7 bits are none of the
\* known tags, a failure reaches its caller: the decode ends in an error, no
\* value (placeholder or other) is returned, and the cursor stays right after
\* the offending tag.
C1_UnknownTagAborts ==
    [][ (AtTag /\ (fp[pos + 1] % 128) \notin KnownTags)
        => (err' # "none" /\ ret' = NoReturn /\ stack' = <<>> /\ pos' = pos + 1) ]_vars

\* C2: a ShortAscii tag followed by a length byte L never yields a PyShortAscii
\* whose value holds fewer than L bytes: with fewer than L bytes left the
\* decode fails instead.
C2_ShortAsciiNeverShort ==
    ret.cls = "PyShortAscii" =>
        /\ Len(ret.value.bytes) = ret.size.value
        /\ Len(ret.value.value) = ret.size.value

\* C3: when parse_bytecode has returned, no instruction of its result is an
\* opcode that takes an argument without its operand and argument: an
\* instruction cut short by the end of the buffer is not emitted.
C3_TruncatedInstructionNotEmitted ==
    bcpc = "returned" =>
        \A i \in 1..Len(container) :
            container[i][2].v >= HAVE_ARGUMENT
                => (container[i][3] # None /\ container[i][4] # None)

\* C4: as long as every earlier call found the bytes it asked for, the offset
\* of a chunk is the sum of the sizes of the chunks returned before it.
C4_OffsetsContiguous ==
    \A k \in 1..Len(chunks) :
        AllAvailableBefore(k) => chunks[k].offset = SizesBefore(k)

C4_Witness ==
    /\ Len(chunks) = 3
    /\ AllAvailableBefore(4)
    /\ chunks[1].size = 1
    /\ chunks[2].size = 3
    /\ chunks[3].size = 1

\* C5: every chunk a Reader operation returned has size = len(bytes).
C5_SizeIsLenBytes ==
    \A k \in 1..Len(chunks) : chunks[k].size = Len(chunks[k].bytes)

\* C6: the version is set before the time stamp and the size are read; when
\* PycHeader.parse returns, the header of a 2.7, 3.0 or 3.1 file has taken
\* exactly 8 bytes and has no size, and the header of a 3.2 .. 3.6 file has
\* taken exactly 12 bytes and its size is the chunk read at offset 8.
OldMagic == { [hi |-> 2573, lo |-> 62211], [hi |-> 2573, lo |-> 3131],
              [hi |-> 2573, lo |-> 3151] }

VersionOfMagic(m) ==
    CASE m = [hi |-> 2573, lo |-> 62211] -> <<2, 7, 0>>
      [] m = [hi |-> 2573, lo |-> 3131]  -> <<3, 0, 0>>
      [] m = [hi |-> 2573, lo |-> 3151]  -> <<3, 1, 0>>
      [] m = [hi |-> 2573, lo |-> 3180]  -> <<3, 2, 0>>
      [] m = [hi |-> 2573, lo |-> 3230]  -> <<3, 3, 0>>
      [] m = [hi |-> 2573, lo |-> 3310]  -> <<3, 4, 0>>
      [] m = [hi |-> 2573, lo |-> 3350]  -> <<3, 5, 0>>
      [] m = [hi |-> 2573, lo |-> 3351]  -> <<3, 5, 2>>
      [] m = [hi |-> 41168, lo |-> 3378] -> <<3, 6, 0>>

HeaderReturns == AtReturn("PycModule.parse") /\ Top.pc = "header"

C6_HeaderVersionGating ==
    /\ Len(chunks) >= 2 => module.version = VersionOfMagic(chunks[1].value)
    /\ HeaderReturns =>
          /\ ret.magic_number = chunks[1]
          /\ ret.time_stamp = chunks[2]
          /\ ret.time_stamp.offset = 4
          /\ IF chunks[1].value \in OldMagic
             THEN pos = 8 /\ Len(chunks) = 2 /\ ret.size = None
             ELSE pos = 12 /\ Len(chunks) = 3 /\ ret.size = chunks[3]
                  /\ ret.size.offset = 8 /\ ret.size.size = 4

C6_Witness ==
    /\ HeaderReturns
    /\ module.version = <<3, 2, 0>>
    /\ ret.size # None

\* C7: when the first four bytes are no value of the MAGIC_NUMBER table, the
\* decode ends with set_version's exception right after that read: nothing
\* else is read, and version, header and body stay unset.
C7_UnknownMagicIsFatal ==
    (Len(chunks) >= 1 /\ chunks[1].value \notin KnownMagic) =>
        /\ err = "Exception: undefined version of Python"
        /\ Len(chunks) = 1
        /\ pos = 4
        /\ stack = <<>>
        /\ module = [version |-> None, header |-> None, body |-> None]

C7_Witness ==
    /\ err = "Exception: undefined version of Python"
    /\ chunks[1].value = [hi |-> 2573, lo |-> 3352]
    /\ Len(fp) > 8

\* C8: a PySmallTuple that its parser returns holds exactly size.value items,
\* the i-th being the i-th object of the stream after the count byte; a
\* PyCodeObject that its parser returns holds the 5 integers, the 8 objects,
\* firstline and table, each read from the place its turn in the declared
\* order gives it.
C8_ChildrenInOrder ==
    /\ ret.cls = "PySmallTuple" => TupleInOrder(ret)
    /\ ret.cls = "PyCodeObject" => CodeInOrder(ret)

C8_Witness ==
    /\ ret.cls = "PyCodeObject"
    /\ ret.code.cls = "PyString"
    /\ ret.consts.cls = "PySmallTuple"
    /\ Len(ret.consts.items) = 1
    /\ ret.filename.cls = "PyShortAscii"
    /\ ret.name.cls = "PyShortAsciiInterned"
    /\ ret.table.cls = "PyString"

\* C9: when parse_bytecode has returned on a buffer that ends where an
\* instruction ends, it has consumed the whole buffer, the opcodes, operands
\* and arguments of its result in order are the buffer, and an instruction has
\* an operand and an argument exactly when its opcode takes one (None
\* otherwise); bytes [2, 5, 0, 1] with opcode 2 taking an argument and opcode
\* 1 none give (2, 5, 0), (1, None, None).
C9_BytecodeDecoding ==
    (bcpc = "returned" /\ EndsOnBoundary(code, 0, HAVE_ARGUMENT)) =>
        /\ consumer = Len(code)
        /\ InstructionBytes(container) = code
        /\ \A i \in 1..Len(container) :
              /\ container[i][1] = opname(container[i][2].v)
              /\ IF container[i][2].v >= HAVE_ARGUMENT
                 THEN container[i][3] # None /\ container[i][4] # None
                 ELSE container[i][3] = None /\ container[i][4] = None
        /\ (code = <<2, 5, 0, 1>> /\ HAVE_ARGUMENT = 2) =>
              container = << <<opname(2), PyInt(2), PyInt(5), PyInt(0)>>,
                             <<opname(1), PyInt(1), None, None>> >>

C9_Witness ==
    /\ bcpc = "returned"
    /\ code = <<2, 5, 0, 1>>
    /\ HAVE_ARGUMENT = 2
    /\ Len(container) = 2

\* C10: PyObject.parse reads one byte and enters the parser of the tag's low 7
\* bits, the same for b and b | 0x80; for 'N' (0x4E or 0xCE) it returns PyNone
\* with the cursor exactly one byte further and nothing else read.
C10_DispatchIgnoresHighBit ==
    [][ AtTag =>
          LET b == fp[pos + 1]
          IN  /\ pos' = pos + 1
              /\ Len(chunks') = Len(chunks) + 1
              /\ b \in {78, 206} => (ret' = PyNone /\ stack' = Rest)
              /\ (ClsOfTag(b) \notin {"PyObject", "NoneType"}) =>
                    /\ ret' = NoReturn
                    /\ Len(stack') = Len(stack) + 1
                    /\ Last(stack').instance = [cls |-> ClsOfTag(b)]
                    /\ stack'[Len(stack)].current_byte.value = b ]_vars

C10_Witness ==
    /\ ret = PyNone
    /\ chunks # <<>>
    /\ Last(chunks).value = 206
    /\ Last(chunks).offset = pos - 1

====
